---------------------------- MODULE Spec2Model ----------------------------
(***************************************************************************)
(* numbakit-anjit: annotation aware numba njit.                            *)
(*                                                                         *)
(* Model of nbkanjit.signature (Function handle, type mapper, signature    *)
(* Builder, stateless anjit), nbkanjit.exceptions (AnjitException and its  *)
(* message) and nbkanjit.manager (JitManager with its signature registry). *)
(*                                                                         *)
(* Every Python value is a record [k |-> kind, v |-> payload].  The        *)
(* outcome of a call is a record [k, v, info]: k = "ok" with the returned  *)
(* value, or k = the class of the raised exception with the value it       *)
(* carries and the lines added with append_info.                           *)
(***************************************************************************)
EXTENDS Integers, Sequences, FiniteSets, TLC

VARIABLES
    defs,        \* the live functions a Function handle may wrap: id -> function object
    wrapped,     \* history: the same functions as they were when the handles were made
    call,        \* the call being made: operation and arguments
    result,      \* its outcome (Pending until the call has run)
    jm,          \* JitManager: mapping, on_missing_arg, on_missing_ret, disable_jit
    signatures,  \* JitManager._signatures: name -> signature
    ncompile,    \* number of functions handed to the backend compiler numba.njit
    before       \* history: signatures and ncompile when the call started

vars == <<defs, wrapped, call, result, jm, signatures, ncompile, before>>

(***************************************************************************)
(* Bounds of the model.                                                    *)
(***************************************************************************)
MaxParams == 2       \* parameters of a function under test
MaxCompile == 2      \* backend calls counted in one behaviour

(***************************************************************************)
(* Values.                                                                 *)
(***************************************************************************)
NT(n) == [k |-> "nt", v |-> n]                      \* numba scalar or array type
Tuple(es) == [k |-> "Tuple", v |-> es]              \* nt.Tuple(es)
FunctionType(sig) == [k |-> "FunctionType", v |-> sig]
\* ret(*pars) with the parameters in the wrong order
Signature_reversed(ret, pars) ==
    [k |-> "Signature", v |-> <<ret, [i \in DOMAIN pars |-> pars[Len(pars) + 1 - i]]>>]
Signature(ret, pars) == [k |-> "Signature", v |-> <<ret, pars>>]   \* ret(*pars)
Py(n) == [k |-> "py", v |-> n]                      \* builtin: int, float, bool, None
Str(s) == [k |-> "str", v |-> s]
Lit(s) == [k |-> "lit", v |-> s]                    \* a hashable literal such as 888
List(s) == [k |-> "list", v |-> s]                  \* an unhashable value
Function(fid) == [k |-> "Function", v |-> fid]      \* Function(f): the handle holds _func only
None == Py("None")
empty == [k |-> "empty", v |-> "inspect._empty"]
DEFAULT == [k |-> "object", v |-> "DEFAULT"]
Dict(m) == [k |-> "dict", v |-> m]
Func(name, params, ret) ==
    [k |-> "func", v |-> [name |-> name, params |-> params, ret |-> ret]]
Par(name, annotation) == [name |-> name, annotation |-> annotation]
StaticMethod(fn) == [k |-> "staticmethod", v |-> fn]
Compiled(sig, target) == [k |-> "compiled", v |-> <<sig, target>>]
Text(s) == [k |-> "text", v |-> s]

DEFAULT_TYPE_MAPPING ==
    Dict((None :> NT("void")) @@ (Py("int") :> NT("int64"))
         @@ (Py("float") :> NT("float64")) @@ (Py("bool") :> NT("boolean")))

Ok(v) == [k |-> "ok", v |-> v, info |-> <<>>]
Raise(kind, v) == [k |-> kind, v |-> v, info |-> <<>>]
Pending == [k |-> "pending", v |-> None, info |-> <<>>]

AnjitExceptions == {"UnknownAnnotation", "NotNumbaSignature", "MissingAnnotation"}

(***************************************************************************)
(* exceptions.py                                                           *)
(***************************************************************************)
\* the new line takes the place of the lines already there
append_info_overwrite(ex, s) == [ex EXCEPT !.info = <<s>>]

append_info(ex, s) == [ex EXCEPT !.info = Append(@, s)]

RECURSIVE JoinLines(_)
JoinLines(lines) ==
    IF lines = <<>> THEN <<>>
    ELSE IF Len(lines) = 1 THEN lines[1]
    ELSE lines[1] \o <<Text("\n")>> \o JoinLines(Tail(lines))

extra_info(ex) ==
    IF ex.info # <<>> THEN <<Text("\n")>> \o JoinLines(ex.info) ELSE <<>>

\* str(ex): the message, as the sequence of its literal and formatted parts
Message(ex) ==
    IF ex.k = "UnknownAnnotation"
    THEN <<Text("Unknown annotation, cannot translate "), ex.v,
           Text(" into a Numba type.")>> \o extra_info(ex)
    ELSE IF ex.k = "NotNumbaSignature"
    THEN <<Text("Not a numba signature: "), ex.v, Text(".")>> \o extra_info(ex)
    ELSE IF ex.k = "MissingAnnotation"
    THEN <<Text("Missing annotation for "), ex.v, Text(".")>> \o extra_info(ex)
    ELSE <<ex.v>>

(***************************************************************************)
(* signature.py: the Function handle                                       *)
(***************************************************************************)
\* inspect.signature(func).parameters[key].annotation
ParameterAnnotation(fn, key) ==
    LET ps == fn.v.params
        at == {i \in DOMAIN ps : ps[i].name = key}
    IN  IF at = {} THEN Raise("KeyError", Str(key))
        ELSE Ok(ps[CHOOSE i \in at : TRUE].annotation)

Function_name(h) == Ok(Str(defs[h.v].v.name))

Function_return(h) == Ok(defs[h.v].v.ret)

Function_getattr_wraptime(h, item) ==
    IF item = "__name" THEN ParameterAnnotation(wrapped[h.v], "_name")
    ELSE IF item = "_name" THEN ParameterAnnotation(wrapped[h.v], "name")
    ELSE ParameterAnnotation(wrapped[h.v], item)

\* Function.__getattr__: reached only when normal lookup finds no attribute
Function_getattr(h, item) ==
    IF item = "__name" THEN ParameterAnnotation(defs[h.v], "_name")
    ELSE IF item = "_name" THEN ParameterAnnotation(defs[h.v], "name")
    ELSE ParameterAnnotation(defs[h.v], item)

\* the expression Function(f).item: the dataclass field and the properties
\* are found by normal attribute lookup, everything else by __getattr__
Function_attribute(h, item) ==
    IF item = "_func" THEN Ok(defs[h.v])
    ELSE IF item = "name" THEN Function_name(h)
    ELSE IF item = "_return" THEN Function_return(h)
    ELSE Function_getattr(h, item)

(***************************************************************************)
(* signature.py: type mapper and signature Builder                         *)
(***************************************************************************)
\* an identity-style check that knows the plain types only
is_numba_type_plain(obj) == obj.k \in {"nt", "Tuple"}

is_numba_type(obj) == obj.k \in {"nt", "Tuple", "FunctionType"}

is_numba_signature(obj) == obj.k = "Signature"

\* func.__func__ of a staticmethod, func itself otherwise
Unwrapped(func) == IF func.k = "staticmethod" THEN func.v ELSE func

Builder(mapping, on_missing_arg, on_missing_ret) ==
    [mapping |-> mapping, on_missing_arg |-> on_missing_arg,
     on_missing_ret |-> on_missing_ret]

\* the first exception raised by a left-to-right evaluation
FirstRaised(rs) ==
    LET bad == {i \in DOMAIN rs : rs[i].k # "ok"}
    IN  rs[CHOOSE i \in bad : \A j \in bad : i <= j]

AllOk(rs) == \A i \in DOMAIN rs : rs[i].k = "ok"

\* self.mapping[obj]
Lookup(mapping, obj) ==
    IF mapping.k # "dict" THEN Raise("TypeError", mapping)     \* not subscriptable
    ELSE IF obj.k = "list" THEN Raise("TypeError", obj)        \* unhashable
    ELSE IF obj \in DOMAIN mapping.v THEN Ok(mapping.v[obj])
    ELSE Raise("KeyError", obj)

RECURSIVE map_to_numba_type(_, _)
RECURSIVE build_signature(_, _)

\* the fallback is dropped: a missing annotation always raises
convert_annotation_no_fallback(b, name, annotation, missing_value, empty_) ==
    IF annotation = empty_
    THEN Raise("MissingAnnotation", Str(name))
    ELSE map_to_numba_type(b, annotation)

convert_annotation(b, name, annotation, missing_value, empty_) ==
    IF annotation = empty_
    THEN IF missing_value = Str("raise")
         THEN Raise("MissingAnnotation", Str(name))
         ELSE map_to_numba_type(b, missing_value)
    ELSE map_to_numba_type(b, annotation)

\* lines 134-135: the tuple is rebuilt from its mapped elements
TupleOf(rs) ==
    IF AllOk(rs) THEN Ok(Tuple([i \in DOMAIN rs |-> rs[i].v])) ELSE FirstRaised(rs)

\* the handle resolves to the bare signature, not to a function type
FunctionTypeOf_bare(r) == r

\* lines 137-138: nt.FunctionType(signature of the wrapped function)
FunctionTypeOf(r) == IF r.k = "ok" THEN Ok(FunctionType(r.v)) ELSE r

\* lines 143-146: only KeyError becomes UnknownAnnotation
UnknownOnKeyError(r, obj) ==
    IF r.k = "KeyError" THEN Raise("UnknownAnnotation", obj) ELSE r

map_to_numba_type(b, obj) ==
    IF obj.k = "Tuple"
    THEN TupleOf([i \in DOMAIN obj.v |-> map_to_numba_type(b, obj.v[i])])
    ELSE IF obj.k = "Function"
    THEN FunctionTypeOf(build_signature(b, defs[obj.v]))
    ELSE IF is_numba_type(obj) THEN Ok(obj)
    ELSE UnknownOnKeyError(Lookup(b.mapping, obj), obj)

\* the outcome of each conversion, parameters in order and the return last
Conversions(b, fn) ==
    [i \in 1..(Len(fn.v.params) + 1) |->
        IF i <= Len(fn.v.params)
        THEN convert_annotation(b, fn.v.params[i].name, fn.v.params[i].annotation,
                                b.on_missing_arg, empty)
        ELSE convert_annotation(b, "return", fn.v.ret, b.on_missing_ret, empty)]

\* the except clauses of build_signature: ex was raised at position i
Enriched(fn, ex, i) ==
    IF ex.k = "MissingAnnotation"
    THEN append_info(ex, <<Text("_func: "), fn>>)
    ELSE IF ex.k \in AnjitExceptions
    THEN IF i <= Len(fn.v.params)
         THEN append_info(ex, <<Text("_func: "), fn,
                                Text(". Argument: "), Str(fn.v.params[i].name),
                                Text(", Annotation: "), fn.v.params[i].annotation>>)
         ELSE append_info(ex, <<Text("_func: "), fn,
                                Text(". Return annotation: "), fn.v.ret>>)
    ELSE ex

FirstRaisedAt(rs) ==
    CHOOSE j \in DOMAIN rs : rs[j].k # "ok" /\ \A l \in DOMAIN rs : rs[l].k # "ok" => j <= l

\* ret(*pars), or the first exception with its added information
SignatureOf(fn, rs) ==
    IF AllOk(rs)
    THEN Ok(Signature(rs[Len(rs)].v, [i \in 1..(Len(rs) - 1) |-> rs[i].v]))
    ELSE Enriched(fn, FirstRaised(rs), FirstRaisedAt(rs))

build_signature(b, func) == SignatureOf(Unwrapped(func), Conversions(b, Unwrapped(func)))

(***************************************************************************)
(* The backend and the stateless anjit.  A call that may compile returns   *)
(* [out |-> outcome, n |-> functions handed to numba.njit].                *)
(***************************************************************************)
Closure(kind, env) == [k |-> kind, v |-> env]

\* numba.njit(sig, **kwargs)(func)
numba_njit(sig, func) == Compiled(sig, func)

\* numba.njit(sig, **kwargs)(func_) once the signature is built
njit_built(sig, func_) ==
    IF sig.k = "ok" THEN [out |-> Ok(numba_njit(sig.v, func_)), n |-> 1]
    ELSE [out |-> sig, n |-> 0]

\* anjit's inner njit_decorator(func_) with its captured configuration
njit_decorator(b, func_) == njit_built(build_signature(b, func_), func_)

\* staticmethod(njit_decorator(func.__func__))
staticmethod_of(r) ==
    IF r.out.k = "ok" THEN [out |-> Ok(StaticMethod(r.out.v)), n |-> r.n] ELSE r

\* anjit from "if func:" on
anjit_apply(b, func) ==
    IF func # None
    THEN IF func.k = "staticmethod"
         THEN staticmethod_of(njit_decorator(b, func.v))
         ELSE njit_decorator(b, func)
    ELSE [out |-> Ok(Closure("njit_decorator", b)), n |-> 0]

anjit(func, mapping, on_missing_arg, on_missing_ret) ==
    anjit_apply(Builder(IF mapping = DEFAULT THEN DEFAULT_TYPE_MAPPING ELSE mapping,
                        on_missing_arg, on_missing_ret), func)

\* the module-level build_signature(func, mapping=DEFAULT, **kwargs)
module_build_signature(func, mapping, on_missing_arg, on_missing_ret) ==
    build_signature(Builder(mapping, on_missing_arg, on_missing_ret), func)

(***************************************************************************)
(* manager.py: JitManager.  An operation returns [out, sigs, n]: outcome,  *)
(* the registry after it, functions handed to numba.njit.                  *)
(***************************************************************************)
callable(x) == x.k \in {"func", "compiled"}

__name__(func) == Str(func.v.name)

Return(out, sigs, n) == [out |-> out, sigs |-> sigs, n |-> n]

Store(sigs, name, sig) ==
    [nm \in DOMAIN sigs \cup {name} |-> IF nm = name THEN sig ELSE sigs[nm]]

\* an operation that leaves the registry alone
Unregistered(r) == Return(r.out, signatures, r.n)

JitManager_njit(signature_or_function) ==
    IF jm.disable_jit THEN Return(Ok(signature_or_function), signatures, 0)
    ELSE IF is_numba_signature(signature_or_function)
    THEN Return(Ok(Closure("numba.njit", signature_or_function)), signatures, 0)
    ELSE Return(Ok(numba_njit(None, signature_or_function)), signatures, 1)

\* kwmapping: the mapping keyword given at the call, None when not given
JitManager_anjit(func, kwmapping) ==
    IF jm.disable_jit THEN Return(Ok(func), signatures, 0)
    ELSE Unregistered(anjit(func, IF kwmapping = None THEN jm.mapping ELSE kwmapping,
                            jm.on_missing_arg, jm.on_missing_ret))

\* the name is entered in the registry before the signature is known
register_built_eager(name, func, sig) ==
    IF sig.k = "ok" THEN Return(Ok(func), Store(signatures, name, sig.v), 0)
    ELSE Return(sig, Store(signatures, name, None), 0)

\* the built signature is stored and func returned
register_built(name, func, sig) ==
    IF sig.k = "ok" THEN Return(Ok(func), Store(signatures, name, sig.v), 0)
    ELSE Return(sig, signatures, 0)

\* the duplicate check is left out
register_store_unchecked(name, func, raise_on_duplicate) ==
    IF is_numba_signature(func)
    THEN Return(Ok(None), Store(signatures, name, func), 0)
    ELSE register_built(name, func, build_signature(
             Builder(jm.mapping, jm.on_missing_arg, jm.on_missing_ret), func))

\* register from the duplicate check on, name and func both known
register_store(name, func, raise_on_duplicate) ==
    IF raise_on_duplicate /\ name \in DOMAIN signatures
    THEN Return(Raise("ValueError", name), signatures, 0)
    ELSE IF is_numba_signature(func)
    THEN Return(Ok(None), Store(signatures, name, func), 0)
    ELSE register_built(name, func, build_signature(
             Builder(jm.mapping, jm.on_missing_arg, jm.on_missing_ret), func))

register(name_or_func, func, raise_on_duplicate) ==
    IF func = None
    THEN IF name_or_func.k = "str"
         THEN Return(Ok(Closure("register._deco", <<name_or_func, raise_on_duplicate>>)),
                     signatures, 0)
         ELSE IF ~callable(name_or_func)
         THEN Return(Raise("ValueError",
                           Text("If only a single argument is used, it must be a callable.")),
                     signatures, 0)
         ELSE register_store(__name__(name_or_func), name_or_func, raise_on_duplicate)
    ELSE register_store(name_or_func, func, raise_on_duplicate)

\* the signature is looked up under the function's own name
njit_tmpl_compile_own_name(name, func) ==
    LET own == __name__(Unwrapped(func))
    IN  IF own \notin DOMAIN signatures
        THEN Return(Raise("KeyError", own), signatures, 0)
        ELSE Return(Ok(numba_njit(signatures[own], Unwrapped(func))), signatures, 1)

\* njit_tmpl from the registry lookup on
njit_tmpl_compile(name, func) ==
    IF name \notin DOMAIN signatures
    THEN Return(Raise("KeyError", name), signatures, 0)
    ELSE IF func.k = "staticmethod"
    THEN Return(Ok(numba_njit(signatures[name], func.v)), signatures, 1)
    ELSE Return(Ok(numba_njit(signatures[name], func)), signatures, 1)

njit_tmpl(name_or_func, func) ==
    IF func = None /\ name_or_func.k = "str"
    THEN Return(Ok(Closure("njit_tmpl._deco", name_or_func)), signatures, 0)
    ELSE IF func = None /\ callable(name_or_func)
    THEN njit_tmpl_compile(__name__(name_or_func), name_or_func)
    ELSE IF name_or_func = None
    THEN Return(Ok(Closure("njit_tmpl._deco_by_name", None)), signatures, 0)
    ELSE njit_tmpl_compile(name_or_func, func)

JitManager_f(name) ==
    IF name \in DOMAIN signatures
    THEN Return(Ok(FunctionType(signatures[name])), signatures, 0)
    ELSE Return(Raise("KeyError", name), signatures, 0)

\* decorator(func): the call of a value returned by one of the operations
CallValue(decorator, func) ==
    IF decorator.k = "register._deco"
    THEN register(decorator.v[1], func, decorator.v[2])
    ELSE IF decorator.k = "njit_tmpl._deco"
    THEN njit_tmpl(decorator.v, func)
    ELSE IF decorator.k = "njit_tmpl._deco_by_name"
    THEN njit_tmpl(__name__(func), func)
    ELSE IF decorator.k = "njit_decorator"
    THEN Unregistered(njit_decorator(decorator.v, func))
    ELSE IF decorator.k = "numba.njit"
    THEN Return(Ok(numba_njit(decorator.v, func)), signatures, 1)
    ELSE Return(Raise("TypeError", decorator), signatures, 0)   \* not callable

(***************************************************************************)
(* The functions, annotations and Builder configurations the calls are     *)
(* drawn from.                                                             *)
(***************************************************************************)
FIds == {"g", "h"}

\* what "g" and "h" may be (re)defined as; h references no handle and g
\* references only h, so handle chains are finite and acyclic
DefChoices ==
    [g |-> {Func("g", <<Par("x", Py("int")), Par("y", Py("float"))>>, Py("float")),
            Func("g", <<Par("x", Py("int")), Par("y", Py("int"))>>, Py("float")),
            Func("g", <<Par("name", Py("int")), Par("_name", Py("float")),
                        Par("_func", Str("a")), Par("_return", Py("bool"))>>,
                 NT("float64")),
            Func("g", <<Par("x", Py("int")), Par("y", empty)>>, Py("float")),
            Func("g", <<Par("x", Py("int")), Par("f", Function("h"))>>, Py("float"))},
     h |-> {Func("h", <<Par("x", Py("int"))>>, Py("float")),
            Func("h", <<Par("x", Lit("888"))>>, empty)}]

\* test_function_argument_wrapper: fun1a(x: int, y: float) -> float
DefsInit ==
    [g |-> Func("g", <<Par("x", Py("int")), Par("y", Py("float"))>>, Py("float")),
     h |-> Func("h", <<Par("x", Py("int"))>>, Py("float"))]

AnnVals ==
    {NT("float64"), Py("int"), Str("a"), Lit("888"), List("[1]"),
     Function("g"), Tuple(<<Function("g"), NT("int64")>>), empty}

ObjVals ==
    AnnVals \cup
    {NT("float64[:]"), None, Py("float"), Function("h"),
     Tuple(<<NT("int64"), NT("float64")>>),
     Tuple(<<Tuple(<<Function("h"), NT("float64")>>), NT("int64")>>),
     FunctionType(Signature(NT("float64"), <<NT("int64")>>))}

ParNames == <<"x", "y", "z", "w">>

\* def fun(x: a1, y: a2, ...) -> r
FuncDefs ==
    {Func("fun", [i \in 1..n |-> Par(ParNames[i], as[i])], r) :
        <<n, as, r>> \in UNION {{<<m, a, rr>> : a \in [1..m -> AnnVals], rr \in AnnVals} :
                                m \in 0..MaxParams}}

StaticFuncs ==
    {StaticMethod(Func("fun", <<Par("x", Py("int")), Par("y", a)>>, Py("float"))) :
        a \in {Py("float"), empty, Lit("888")}}

EMPTY_MAPPING == Dict([o \in {} |-> o])
CUSTOM_MAPPING == Dict(Str("a") :> NT("float64"))
Mappings == {DEFAULT_TYPE_MAPPING, EMPTY_MAPPING, CUSTOM_MAPPING}

Builders ==
    {Builder(m, a, r) : m \in Mappings, a \in {Str("raise"), Py("int")},
                        r \in {Str("raise"), Py("float")}}

Items == {"x", "y", "f", "name", "_name", "__name", "_func", "_return", "nope"}

Call(op, b, arg, item) == [op |-> op, b |-> b, arg |-> arg, item |-> item]
NoBuilder == Builder(DEFAULT_TYPE_MAPPING, Str("raise"), Str("raise"))

SigCalls ==
    {Call("build_signature", b, fn, "") : b \in Builders, fn \in FuncDefs \cup StaticFuncs}
    \cup {Call("map_to_numba_type", b, o, "") : b \in Builders, o \in ObjVals}
    \cup {Call("getattr", NoBuilder, Function(fid), item) : fid \in FIds, item \in Items}

\* build_signature(func, **kwargs) and build_signature(func, mapping=..., **kwargs)
ModuleCalls ==
    {Call("module.build_signature", b, fn, given) :
        b \in {bb \in Builders : bb.mapping = DEFAULT_TYPE_MAPPING},
        fn \in FuncDefs \cup StaticFuncs, given \in {"DEFAULT", "mapping"}}

NoSignatures == [nm \in {} |-> nm]

JmInit ==
    [mapping |-> DEFAULT_TYPE_MAPPING, on_missing_arg |-> Str("raise"),
     on_missing_ret |-> Str("raise"), disable_jit |-> FALSE]

(***************************************************************************)
(* The signature functions: a call is drawn, the referenced functions may  *)
(* be re-annotated before it runs, then it runs.                           *)
(***************************************************************************)
InitSig ==
    /\ defs = DefsInit
    /\ wrapped = defs
    /\ \/ call \in SigCalls
       \/ call \in ModuleCalls
    /\ result = Pending
    /\ jm = JmInit
    /\ signatures = NoSignatures
    /\ ncompile = 0
    /\ before = [signatures |-> NoSignatures, ncompile |-> 0]

\* f.__annotations__ is changed after the handles were made
Redefine(fid, d) ==
    /\ result = Pending
    /\ d \in DefChoices[fid]
    /\ d # defs[fid]
    /\ defs' = [defs EXCEPT ![fid] = d]
    /\ UNCHANGED <<wrapped, call, result, jm, signatures, ncompile, before>>

BuildSignature ==
    /\ result = Pending
    /\ call.op = "build_signature"
    /\ result' = build_signature(call.b, call.arg)
    /\ UNCHANGED <<defs, wrapped, call, jm, signatures, ncompile, before>>

MapToNumbaType ==
    /\ result = Pending
    /\ call.op = "map_to_numba_type"
    /\ result' = map_to_numba_type(call.b, call.arg)
    /\ UNCHANGED <<defs, wrapped, call, jm, signatures, ncompile, before>>

GetAttr ==
    /\ result = Pending
    /\ call.op = "getattr"
    /\ result' = Function_attribute(call.arg, call.item)
    /\ UNCHANGED <<defs, wrapped, call, jm, signatures, ncompile, before>>

\* signature.build_signature(func, **kwargs) with the mapping argument left
\* out (item "DEFAULT") or given as mapping=call.b.mapping (item "mapping")
ModuleBuildSignature ==
    /\ result = Pending
    /\ call.op = "module.build_signature"
    /\ result' = module_build_signature(call.arg,
                      IF call.item = "DEFAULT" THEN DEFAULT ELSE call.b.mapping,
                      call.b.on_missing_arg, call.b.on_missing_ret)
    /\ UNCHANGED <<defs, wrapped, call, jm, signatures, ncompile, before>>

NextSig ==
    \/ \E fid \in FIds : \E d \in DefChoices[fid] : Redefine(fid, d)
    \/ BuildSignature
    \/ MapToNumbaType
    \/ GetAttr
    \/ ModuleBuildSignature

SpecSig == InitSig /\ [][NextSig]_vars

(***************************************************************************)
(* The JitManager: one manager, any sequence of its operations in each of  *)
(* their calling forms.                                                    *)
(***************************************************************************)
\* test_register, test_use_register: fun1(x: int, y: float) -> float and variants
MgrFuncs ==
    {Func("fun", <<Par("x", Py("int")), Par("y", Py("float"))>>, Py("float")),
     Func("fun", <<Par("x", Py("int")), Par("y", Py("int"))>>, Py("float")),
     Func("simple", <<Par("x", Py("int")), Par("y", Py("float"))>>, Py("float")),
     Func("fun", <<Par("x", Py("int")), Par("y", empty)>>, Py("float")),
     Func("simple", <<Par("x", Py("int")), Par("y", Lit("888"))>>, Py("float"))}

MgrStatic ==
    {StaticMethod(Func("fun", <<Par("x", Py("int")), Par("y", Py("float"))>>, Py("float")))}

MgrSigs ==
    {Signature(NT("float64"), <<NT("int64"), NT("float64")>>),
     Signature(NT("void"), <<NT("int64")>>)}

Names == {Str("simple"), Str("fun")}

CUSTOM_DEFAULT_MAPPING ==
    Dict(DEFAULT_TYPE_MAPPING.v @@ (Str("a") :> NT("float64")))

MCall(op, form, name, func, rod) ==
    [op |-> op, form |-> form, name |-> name, func |-> func, rod |-> rod]

Init ==
    /\ defs = DefsInit
    /\ wrapped = defs
    /\ jm \in [mapping : {DEFAULT_TYPE_MAPPING}, on_missing_arg : {Str("raise"), Py("int")},
               on_missing_ret : {Str("raise")}, disable_jit : BOOLEAN]
    /\ signatures = NoSignatures
    /\ ncompile = 0
    /\ before = [signatures |-> NoSignatures, ncompile |-> 0]
    /\ call = MCall("JitManager", "direct", None, None, TRUE)
    /\ result = Pending

\* the call c is made and ends as r says
Do(c, r) ==
    /\ ncompile + r.n <= MaxCompile
    /\ call' = c
    /\ result' = r.out
    /\ signatures' = r.sigs
    /\ ncompile' = ncompile + r.n
    /\ before' = [signatures |-> signatures, ncompile |-> ncompile]
    /\ UNCHANGED <<defs, wrapped, jm>>

\* the call of what a factory form returned, an exception of the factory passed on
Decorate(d, func) == IF d.out.k = "ok" THEN CallValue(d.out.v, func) ELSE d

\* jm.njit(func)
Njit(x) ==
    \E r \in {JitManager_njit(x)} : Do(MCall("njit", "bare", None, x, TRUE), r)

\* @jm.njit(sig)
NjitFactory(sig, func) ==
    \E d \in {JitManager_njit(sig)} : \E r \in {Decorate(d, func)} :
        Do(MCall("njit", "factory", None, func, TRUE), r)

\* @jm.anjit, jm.anjit(func, mapping=...)
Anjit(func, kwmapping) ==
    \E r \in {JitManager_anjit(func, kwmapping)} :
        Do(MCall("anjit", "bare", None, func, TRUE), r)

\* njit_decorator hands func_ to numba.njit as it is: what the backend does
\* with a staticmethod object is its own matter, it may also refuse it
Refused(r, func) ==
    IF func.k = "staticmethod" /\ r.out.k = "ok" /\ r.out.v.k = "compiled"
    THEN Return(Raise("TypeError", func), r.sigs, r.n)
    ELSE r

\* @jm.anjit(), @jm.anjit(mapping=...)
AnjitFactory(func, kwmapping) ==
    \E d \in {JitManager_anjit(None, kwmapping)} :
        \E r \in {Decorate(d, func), Refused(Decorate(d, func), func)} :
            Do(MCall("anjit", "factory", None, func, TRUE), r)

\* jm.register(name, signature), jm.register(name, func)
Register(name, x, rod) ==
    \E r \in {register(name, x, rod)} : Do(MCall("register", "direct", name, x, rod), r)

\* @jm.register, jm.register(func)
RegisterBare(x, rod) ==
    \E r \in {register(x, None, rod)} : Do(MCall("register", "bare", None, x, rod), r)

\* @jm.register(name)
RegisterFactory(name, func, rod) ==
    \E d \in {register(name, None, rod)} : \E r \in {Decorate(d, func)} :
        Do(MCall("register", "factory", name, func, rod), r)

\* jm.njit_tmpl(name, func)
NjitTmpl(name, func) ==
    \E r \in {njit_tmpl(name, func)} : Do(MCall("njit_tmpl", "direct", name, func, TRUE), r)

\* @jm.njit_tmpl
NjitTmplBare(func) ==
    \E r \in {njit_tmpl(func, None)} : Do(MCall("njit_tmpl", "bare", None, func, TRUE), r)

\* @jm.njit_tmpl(name)
NjitTmplFactory(name, func) ==
    \E d \in {njit_tmpl(name, None)} : \E r \in {Decorate(d, func)} :
        Do(MCall("njit_tmpl", "factory", name, func, TRUE), r)

\* @jm.njit_tmpl()
NjitTmplFactoryByName(func) ==
    \E d \in {njit_tmpl(None, None)} : \E r \in {Decorate(d, func)} :
        Do(MCall("njit_tmpl", "factory", None, func, TRUE), r)

\* jm.f(name)
F(name) == \E r \in {JitManager_f(name)} : Do(MCall("f", "direct", name, None, TRUE), r)

Next ==
    \/ \E x \in MgrFuncs : Njit(x)
    \/ \E sig \in MgrSigs : \E func \in MgrFuncs : NjitFactory(sig, func)
    \/ \E func \in MgrFuncs \cup MgrStatic :
          \E kw \in {None, CUSTOM_DEFAULT_MAPPING} : Anjit(func, kw)
    \/ \E func \in MgrFuncs \cup MgrStatic :
          \E kw \in {None, CUSTOM_DEFAULT_MAPPING} : AnjitFactory(func, kw)
    \/ \E name \in Names : \E x \in MgrFuncs \cup MgrSigs : \E rod \in BOOLEAN :
          Register(name, x, rod)
    \/ \E x \in MgrFuncs \cup {Lit("888")} : \E rod \in BOOLEAN : RegisterBare(x, rod)
    \/ \E name \in Names : \E func \in MgrFuncs : \E rod \in BOOLEAN :
          RegisterFactory(name, func, rod)
    \/ \E name \in Names : \E func \in MgrFuncs \cup MgrStatic : NjitTmpl(name, func)
    \/ \E func \in MgrFuncs : NjitTmplBare(func)
    \/ \E name \in Names : \E func \in MgrFuncs \cup MgrStatic : NjitTmplFactory(name, func)
    \/ \E func \in MgrFuncs : NjitTmplFactoryByName(func)
    \/ \E name \in Names : F(name)

Spec == Init /\ [][Next]_vars

(***************************************************************************)
(* Properties of the signature functions (checked under SpecSig).          *)
(***************************************************************************)
Range(sq) == {sq[i] : i \in DOMAIN sq}

\* the annotations of a function by position: the parameters, then the return
Annotations(func) ==
    LET fn == Unwrapped(func)
        n == Len(fn.v.params)
    IN  [i \in 1..(n + 1) |-> IF i <= n THEN fn.v.params[i].annotation ELSE fn.v.ret]

PositionName(func, i) ==
    LET fn == Unwrapped(func)
    IN  IF i <= Len(fn.v.params) THEN fn.v.params[i].name ELSE "return"

PositionPolicy(b, func, i) ==
    IF i <= Len(Unwrapped(func).v.params) THEN b.on_missing_arg ELSE b.on_missing_ret

\* the same function with the annotation at position i written as a
WithAnnotation(func, i, a) ==
    LET fn == Unwrapped(func)
        n == Len(fn.v.params)
        g == IF i <= n
             THEN Func(fn.v.name,
                       [j \in 1..n |-> IF j = i THEN Par(fn.v.params[j].name, a)
                                       ELSE fn.v.params[j]],
                       fn.v.ret)
             ELSE Func(fn.v.name, fn.v.params, a)
    IN  IF func.k = "staticmethod" THEN StaticMethod(g) ELSE g

IsKey(mapping, a) == mapping.k = "dict" /\ a.k # "list" /\ a \in DOMAIN mapping.v

BuildDone == call.op = "build_signature" /\ result # Pending
MapDone == call.op = "map_to_numba_type" /\ result # Pending
GetAttrDone == call.op = "getattr" /\ result # Pending

\* the outcome of resolving each position on its own
PositionOutcomes(b, func) ==
    LET as == Annotations(func)
    IN  [i \in DOMAIN as |->
           convert_annotation(b, PositionName(func, i), as[i],
                              PositionPolicy(b, func, i), empty)]

\* position i is the first, in declaration order with the return last,
\* whose resolution fails
FirstFailing(b, func, i) ==
    LET os == PositionOutcomes(b, func)
    IN  /\ i \in DOMAIN os
        /\ os[i].k # "ok"
        /\ \A j \in DOMAIN os : j < i => os[j].k = "ok"

----------------------------------------------------------------------------
C1_Mapped(b, a) == a # empty /\ (is_numba_type(a) \/ (a.k # "Function" /\ IsKey(b.mapping, a)))

\* the type written by hand for an annotation: a key's mapped type, a native
\* type itself, an nt.Tuple made of the resolved types of its elements
C1_HandType(b, a) ==
    IF a.k = "Tuple" THEN map_to_numba_type(b, a)
    ELSE IF a.k \in {"nt", "FunctionType"} THEN Ok(a)
    ELSE Ok(b.mapping.v[a])

C1_Pre ==
    /\ BuildDone
    /\ \A i \in DOMAIN Annotations(call.arg) : C1_Mapped(call.b, Annotations(call.arg)[i])

\* C1: a function annotated at every position with a key of the mapping or a
\* native type builds to ret(p1, ..., pn), pi the resolved type of parameter i
\* in declaration order and ret the resolved return type; a signature with one
\* type changed, or with two different parameter types exchanged, differs.
C1_BuildsHandBuilt ==
    C1_Pre =>
        LET as == Annotations(call.arg)
            n == Len(as) - 1
            hs == [i \in DOMAIN as |-> C1_HandType(call.b, as[i])]
        IN  IF \A i \in DOMAIN hs : hs[i].k = "ok"
            THEN LET pars == [i \in 1..n |-> hs[i].v]
                     ret == hs[n + 1].v
                     Sig(r, ps) == [k |-> "Signature", v |-> <<r, ps>>]
                 IN  /\ result = Ok(Sig(ret, pars))
                     /\ \A i \in 1..n : \A t \in {NT("int64"), NT("float64"), NT("void")} :
                           t # pars[i] => Sig(ret, [pars EXCEPT ![i] = t]) # result.v
                     /\ \A t \in {NT("int64"), NT("float64"), NT("void")} :
                           t # ret => Sig(t, pars) # result.v
                     /\ \A i, j \in 1..n :
                           pars[i] # pars[j] =>
                              Sig(ret, [pars EXCEPT ![i] = pars[j], ![j] = pars[i]]) # result.v
            ELSE result.k # "ok"

C1_Witness ==
    /\ C1_Pre
    /\ result.k = "ok"
    /\ Len(Unwrapped(call.arg).v.params) = 2
    /\ result.v.v[2][1] # result.v.v[2][2]
    /\ \E i \in DOMAIN Annotations(call.arg) : ~is_numba_type(Annotations(call.arg)[i])
    /\ \E i \in DOMAIN Annotations(call.arg) : is_numba_type(Annotations(call.arg)[i])

----------------------------------------------------------------------------
\* the function with every missing annotation whose policy is a fallback
\* value written out as that value
RECURSIVE C2_Filled(_, _, _)
C2_Filled(b, func, i) ==
    IF i = 0 THEN func
    ELSE LET rest == C2_Filled(b, func, i - 1)
         IN  IF /\ Annotations(func)[i] = empty
                /\ PositionPolicy(b, func, i) # Str("raise")
             THEN WithAnnotation(rest, i, PositionPolicy(b, func, i))
             ELSE rest

\* C2: at a position without annotation, the "raise" policy makes the build
\* fail with MissingAnnotation naming the position (value and message); any
\* other policy value is resolved through the type mapper in its place, so
\* the build gives what the function with the fallback written as the
\* annotation gives.
C2_MissingPolicy ==
    BuildDone =>
        LET as == Annotations(call.arg)
            filled == build_signature(call.b, C2_Filled(call.b, call.arg, Len(as)))
        IN  /\ \A i \in DOMAIN as :
                  (as[i] = empty /\ PositionPolicy(call.b, call.arg, i) = Str("raise")) =>
                     /\ result.k # "ok"
                     /\ FirstFailing(call.b, call.arg, i) =>
                           /\ result.k = "MissingAnnotation"
                           /\ result.v = Str(PositionName(call.arg, i))
                           /\ Str(PositionName(call.arg, i)) \in Range(Message(result))
            /\ result.k = filled.k
            /\ result.v = filled.v
            /\ \A i \in DOMAIN as :
                  (/\ as[i] = empty
                   /\ PositionPolicy(call.b, call.arg, i) # Str("raise")
                   /\ result.k = "ok") =>
                     LET t == map_to_numba_type(call.b, PositionPolicy(call.b, call.arg, i)).v
                     IN  IF i < Len(as) THEN result.v.v[2][i] = t ELSE result.v.v[1] = t

C2_Witness ==
    /\ BuildDone
    /\ result.k = "ok"
    /\ \E i \in 1..(Len(Annotations(call.arg)) - 1) : Annotations(call.arg)[i] = empty
    /\ Annotations(call.arg)[Len(Annotations(call.arg))] = empty

----------------------------------------------------------------------------
C3_Unknown(b, a) == ~is_numba_type(a) /\ a.k # "Function" /\ ~IsKey(b.mapping, a)

C3_Raised(a) ==
    /\ result.k = "UnknownAnnotation"
    /\ result.v = a
    /\ a \in Range(Message(result))

\* C3: resolving a value that is not a native type, not a Function handle and
\* not a key of the mapping fails with UnknownAnnotation carrying that value,
\* which appears in the message; so does the build of a function whose first
\* failing position is annotated with it.
C3_UnknownAnnotation ==
    /\ (MapDone /\ C3_Unknown(call.b, call.arg)) => C3_Raised(call.arg)
    /\ BuildDone =>
          \A i \in DOMAIN Annotations(call.arg) :
             (/\ Annotations(call.arg)[i] # empty
              /\ C3_Unknown(call.b, Annotations(call.arg)[i])
              /\ FirstFailing(call.b, call.arg, i)) => C3_Raised(Annotations(call.arg)[i])

\* the same for the values a dictionary can be asked for (every value but an
\* unhashable one)
C3_UnknownHashable ==
    /\ (MapDone /\ C3_Unknown(call.b, call.arg) /\ call.arg.k # "list")
          => C3_Raised(call.arg)
    /\ BuildDone =>
          \A i \in DOMAIN Annotations(call.arg) :
             (/\ Annotations(call.arg)[i] # empty
              /\ Annotations(call.arg)[i].k # "list"
              /\ C3_Unknown(call.b, Annotations(call.arg)[i])
              /\ FirstFailing(call.b, call.arg, i)) => C3_Raised(Annotations(call.arg)[i])

----------------------------------------------------------------------------
NativeKinds == {"nt", "Tuple", "FunctionType"}

\* a native type none of whose nt.Tuple levels holds a value that is not native
RECURSIVE C4_NativeThroughout(_)
C4_NativeThroughout(a) ==
    /\ a.k \in NativeKinds
    /\ a.k = "Tuple" => \A i \in DOMAIN a.v : C4_NativeThroughout(a.v[i])

\* resolving a is the same under every mapping, a mapping that cannot be
\* subscripted included: the mapping is not consulted
C4_MappingNotConsulted(a) ==
    \A m \in Mappings \cup {DEFAULT} :
        map_to_numba_type(Builder(m, call.b.on_missing_arg, call.b.on_missing_ret), a) = result

\* C4 as stated: every native type, whatever an nt.Tuple holds, resolves to
\* itself under every mapping and without the mapping being consulted.
C4_NativeUnchanged_Original ==
    (MapDone /\ call.arg.k \in NativeKinds) =>
        result = Ok(call.arg) /\ C4_MappingNotConsulted(call.arg)

\* C4 amended: a native type resolves to itself, without the mapping being
\* consulted, unless it is an nt.Tuple that holds (at some nt.Tuple level) a
\* value that is not native; an nt.Tuple is resolved element by element.
C4_NativeUnchanged ==
    MapDone =>
        /\ C4_NativeThroughout(call.arg) =>
              result = Ok(call.arg) /\ C4_MappingNotConsulted(call.arg)
        /\ (call.arg.k = "Tuple" /\ result.k = "ok") =>
              /\ result.v.k = "Tuple"
              /\ Len(result.v.v) = Len(call.arg.v)
              /\ \A i \in DOMAIN call.arg.v :
                    Ok(result.v.v[i]) = map_to_numba_type(call.b, call.arg.v[i])

C4_Witness ==
    /\ MapDone
    /\ call.arg.k = "Tuple"
    /\ C4_NativeThroughout(call.arg)
    /\ call.b.mapping = EMPTY_MAPPING
    /\ result = Ok(call.arg)

----------------------------------------------------------------------------
IsParameter(fn, p) == \E i \in DOMAIN fn.v.params : fn.v.params[i].name = p

DeclaredAnnotation(fn, p) ==
    fn.v.params[CHOOSE i \in DOMAIN fn.v.params : fn.v.params[i].name = p].annotation

\* the names attribute access does not pass on unchanged to the parameter
\* lookup: the dataclass field, the two properties, the two escapes
C10_Reserved == {"name", "_name", "__name", "_func", "_return"}

\* for parameter p of the function wrapped by handle fid, a function annotated
\* at position i with Function(fid).p builds as one annotated with the
\* annotation declared for p
C10_Mirrors(fid, p) ==
    \A i \in 1..Len(Unwrapped(call.arg).v.params) :
        LET got == Function_attribute(Function(fid), p)
        IN  /\ got.k = "ok"
            /\ build_signature(call.b, WithAnnotation(call.arg, i, got.v))
                 = build_signature(call.b,
                       WithAnnotation(call.arg, i, DeclaredAnnotation(defs[fid], p)))

----------------------------------------------------------------------------
\* the signature of the function now behind handle fid, put together from the
\* outcome of each of its positions under Builder b
C11_Fresh(b, fid) ==
    LET os == PositionOutcomes(b, defs[fid])
        n == Len(os) - 1
    IN  IF \A i \in DOMAIN os : os[i].k = "ok"
        THEN Ok([k |-> "Signature", v |-> <<os[n + 1].v, [i \in 1..n |-> os[i].v]>>])
        ELSE Raise("failed", None)

\* t is annotation a with every Function handle in it, at any nt.Tuple depth,
\* replaced by the function type of the handle's freshly built signature
RECURSIVE C11_HandlesResolved(_, _, _)
C11_HandlesResolved(b, a, t) ==
    IF a.k = "Function"
    THEN /\ C11_Fresh(b, a.v).k = "ok"
         /\ t = [k |-> "FunctionType", v |-> C11_Fresh(b, a.v).v]
    ELSE IF a.k = "Tuple"
    THEN /\ t.k = "Tuple"
         /\ Len(t.v) = Len(a.v)
         /\ \A i \in DOMAIN a.v : C11_HandlesResolved(b, a.v[i], t.v[i])
    ELSE TRUE

\* C11: a Function handle resolves to FunctionType(S), S the signature built
\* from the function now behind the handle with the mapping and the two
\* policies of the Builder doing the resolution, and fails as that build fails;
\* the same for a handle met as an annotation inside build_signature, inside
\* an nt.Tuple, and inside the function behind another handle.
C11_FunctionHandle ==
    /\ MapDone /\ call.arg.k = "Function" =>
          IF C11_Fresh(call.b, call.arg.v).k = "ok"
          THEN result = Ok([k |-> "FunctionType", v |-> C11_Fresh(call.b, call.arg.v).v])
          ELSE /\ result.k # "ok"
               /\ result.k = build_signature(call.b, defs[call.arg.v]).k
               /\ result.v = build_signature(call.b, defs[call.arg.v]).v
    /\ MapDone /\ result.k = "ok" => C11_HandlesResolved(call.b, call.arg, result.v)
    /\ BuildDone /\ result.k = "ok" =>
          \A i \in DOMAIN Annotations(call.arg) :
             C11_HandlesResolved(call.b, Annotations(call.arg)[i],
                                 IF i < Len(Annotations(call.arg))
                                 THEN result.v.v[2][i] ELSE result.v.v[1])

\* a handle on g, re-annotated after the handle was made so that its parameter
\* f is itself a handle on h, resolves to a function type within a function type
C11_Witness ==
    /\ MapDone
    /\ call.arg = Function("g")
    /\ defs["g"] # wrapped["g"]
    /\ \E i \in DOMAIN defs["g"].v.params :
          /\ defs["g"].v.params[i].annotation = Function("h")
          /\ result.k = "ok"
          /\ result.v.k = "FunctionType"
          /\ result.v.v.v[2][i].k = "FunctionType"
          /\ result.v.v.v[2][i].v = build_signature(call.b, defs["h"]).v

----------------------------------------------------------------------------
\* the first position of func, in declaration order with the return last,
\* whose resolution fails under Builder b
C12_FailedAt(b, func) == CHOOSE i \in DOMAIN Annotations(func) : FirstFailing(b, func, i)

\* the number of build_signature levels an exception raised while resolving
\* annotation a passes through before it leaves map_to_numba_type
RECURSIVE C12_Levels(_, _)
C12_Levels(b, a) ==
    IF a.k = "Function"
    THEN LET fn == defs[a.v]
             i == C12_FailedAt(b, fn)
             at == Annotations(fn)[i]
         IN  1 + (IF at = empty
                  THEN IF PositionPolicy(b, fn, i) = Str("raise") THEN 0
                       ELSE C12_Levels(b, PositionPolicy(b, fn, i))
                  ELSE C12_Levels(b, at))
    ELSE IF a.k = "Tuple"
    THEN LET bad == {j \in DOMAIN a.v : map_to_numba_type(b, a.v[j]).k # "ok"}
         IN  C12_Levels(b, a.v[CHOOSE j \in bad : \A l \in bad : j <= l])
    ELSE 0

\* the levels the exception of the failed call has passed, the call's included
C12_Depth ==
    LET i == C12_FailedAt(call.b, call.arg)
        at == Annotations(call.arg)[i]
    IN  1 + (IF at = empty
             THEN IF PositionPolicy(call.b, call.arg, i) = Str("raise") THEN 0
                  ELSE C12_Levels(call.b, PositionPolicy(call.b, call.arg, i))
             ELSE C12_Levels(call.b, at))

\* a build that failed with an exception of the package
C12_Failed == BuildDone /\ result.k \in AnjitExceptions

\* kind and carried value are those of the exception first raised, the lines
\* added below are kept, one line is added and it names the function
C12_Propagated ==
    LET fn == Unwrapped(call.arg)
        i == C12_FailedAt(call.b, call.arg)
        raised == PositionOutcomes(call.b, call.arg)[i]
        line == result.info[Len(result.info)]
    IN  /\ result.k = raised.k
        /\ result.v = raised.v
        /\ Len(result.info) = Len(raised.info) + 1
        /\ \A j \in DOMAIN raised.info : result.info[j] = raised.info[j]
        /\ fn \in Range(line)
        /\ \A x \in Range(line) : x \in Range(Message(result))
        /\ Len(result.info) = C12_Depth
        /\ Cardinality({j \in DOMAIN result.info : fn \in Range(result.info[j])}) = 1

\* the added line names the parameter and shows its raw annotation
C12_NamesParameter ==
    LET fn == Unwrapped(call.arg)
        i == C12_FailedAt(call.b, call.arg)
        line == result.info[Len(result.info)]
    IN  i <= Len(fn.v.params) =>
           /\ Str(fn.v.params[i].name) \in Range(line)
           /\ fn.v.params[i].annotation \in Range(line)

\* C12 as stated: every failed resolution inside build_signature reaches the
\* caller with its kind and value, with a line naming the function and, for a
\* parameter, the parameter and its raw annotation, one line per level.
C12_Enriched_Original ==
    BuildDone /\ result.k # "ok" =>
        /\ result.k \in AnjitExceptions
        /\ C12_Propagated
        /\ C12_NamesParameter

\* C12 amended: a build that fails with MissingAnnotation or UnknownAnnotation
\* reaches the caller with the kind and carried value first raised and one more
\* line in its message, naming the function; the line also names the parameter
\* and shows its raw annotation (or shows the return annotation) when the
\* failure is not MissingAnnotation; a failure inside a nested handle has one
\* line from every enclosing build_signature level, innermost first.
C12_Enriched ==
    C12_Failed =>
        /\ result.k \in {"MissingAnnotation", "UnknownAnnotation"}
        /\ C12_Propagated
        /\ result.k # "MissingAnnotation" =>
              /\ C12_NamesParameter
              /\ C12_FailedAt(call.b, call.arg) = Len(Annotations(call.arg)) =>
                    Unwrapped(call.arg).v.ret \in Range(result.info[Len(result.info)])
        /\ result.k = "MissingAnnotation" =>
              result.info[Len(result.info)] = <<Text("_func: "), Unwrapped(call.arg)>>

\* an unknown annotation two handles down: three levels, three lines
C12_Witness ==
    /\ C12_Failed
    /\ result.k = "UnknownAnnotation"
    /\ result.v = Lit("888")
    /\ Len(result.info) = 3
    /\ defs["h"] \in Range(result.info[1])
    /\ defs["g"] \in Range(result.info[2])
    /\ Unwrapped(call.arg) \in Range(result.info[3])

----------------------------------------------------------------------------
\* C13: resolving a value that is not native and cannot be a dictionary key
\* fails as resolving an absent key does: with UnknownAnnotation carrying the
\* value, and with no other kind of error.
C13_UnhashableUnknown ==
    MapDone /\ call.arg.k = "list" =>
        /\ result.k = map_to_numba_type(call.b, Lit("888")).k
        /\ result = Raise("UnknownAnnotation", call.arg)

----------------------------------------------------------------------------
ModuleBuildDone == call.op = "module.build_signature" /\ result # Pending

\* every annotation of the function is a key of the default type mapping
C14_Builtin(func) ==
    \A i \in DOMAIN Annotations(func) :
        Annotations(func)[i] \in DOMAIN DEFAULT_TYPE_MAPPING.v

\* the signature handed to numba.njit by the stateless anjit(func, **kwargs)
C14_AnjitSignature(func, on_missing_arg, on_missing_ret) ==
    LET c == anjit(func, DEFAULT, on_missing_arg, on_missing_ret).out.v
    IN  IF c.k = "staticmethod" THEN c.v.v[1] ELSE c.v[1]

\* C14: build_signature(func) without a mapping argument gives, for a function
\* annotated with keys of the default type mapping only, the signature that
\* build_signature(func, DEFAULT_TYPE_MAPPING) gives and that anjit(func)
\* compiles with.
C14_DefaultMapping ==
    ModuleBuildDone /\ call.item = "DEFAULT" /\ C14_Builtin(call.arg) =>
        /\ result.k = "ok"
        /\ result = module_build_signature(call.arg, DEFAULT_TYPE_MAPPING,
                                           call.b.on_missing_arg, call.b.on_missing_ret)
        /\ result.v = C14_AnjitSignature(call.arg, call.b.on_missing_arg,
                                         call.b.on_missing_ret)

----------------------------------------------------------------------------
\* the Builder a JitManager derives signatures with
JmBuilder == Builder(jm.mapping, jm.on_missing_arg, jm.on_missing_ret)

\* a register call that got as far as a name and something to register
RegisterDone ==
    /\ call.op = "register"
    /\ result # Pending
    /\ call.form = "bare" => callable(call.func)

RegisteredName == IF call.form = "bare" THEN __name__(call.func) ELSE call.name

\* the signature a successful register stores
RegisteredSignature ==
    IF is_numba_signature(call.func) THEN Ok(call.func)
    ELSE build_signature(JmBuilder, call.func)

\* C5: a register call for a name already in the registry fails with ValueError
\* and leaves the registry as it was when raise_on_duplicate is true; when it is
\* false the call is not refused and the signature it stores replaces the old
\* one (the call fails only if no signature can be derived from the function,
\* and then with the derivation's exception).  Under the default policy no
\* operation changes or removes the signature stored under a name.
C5_Duplicates ==
    /\ RegisterDone /\ RegisteredName \in DOMAIN before.signatures =>
          IF call.rod
          THEN /\ result = Raise("ValueError", RegisteredName)
               /\ signatures = before.signatures
          ELSE IF RegisteredSignature.k = "ok"
          THEN /\ result.k = "ok"
               /\ signatures = Store(before.signatures, RegisteredName,
                                     RegisteredSignature.v)
          ELSE /\ result = RegisteredSignature
               /\ signatures = before.signatures
    /\ call.rod =>
          \A nm \in DOMAIN before.signatures :
             nm \in DOMAIN signatures /\ signatures[nm] = before.signatures[nm]

\* a name registered before is registered again without the duplicate check and
\* now holds another signature
C5_Witness ==
    /\ RegisterDone
    /\ ~call.rod
    /\ result.k = "ok"
    /\ RegisteredName \in DOMAIN before.signatures
    /\ signatures[RegisteredName] # before.signatures[RegisteredName]

\* the name njit_tmpl looks the signature up under
TemplateName == IF call.name = None THEN __name__(Unwrapped(call.func)) ELSE call.name

\* the signatures register can have stored: the ones given, and the ones built
\* from the functions with the manager's mapping and policies
Registrable ==
    MgrSigs \cup {build_signature(JmBuilder, f).v :
                    f \in {g \in MgrFuncs : build_signature(JmBuilder, g).k = "ok"}}

\* C6: a successful register leaves under the name the signature given, or the
\* one build_signature gives for the function with the manager's mapping and
\* policies, and the registry holds nothing else; njit_tmpl, in each calling
\* form, compiles the function once against the signature stored under the name,
\* and for a name not in the registry raises KeyError and compiles nothing.
C6_TemplateCompiles ==
    /\ RegisterDone /\ result.k = "ok" =>
          /\ RegisteredSignature.k = "ok"
          /\ RegisteredName \in DOMAIN signatures
          /\ signatures[RegisteredName] = RegisteredSignature.v
    /\ \A nm \in DOMAIN signatures : signatures[nm] \in Registrable
    /\ call.op = "njit_tmpl" =>
          /\ signatures = before.signatures
          /\ IF TemplateName \in DOMAIN before.signatures
             THEN /\ result = Ok(Compiled(before.signatures[TemplateName],
                                          Unwrapped(call.func)))
                  /\ ncompile = before.ncompile + 1
             ELSE /\ result = Raise("KeyError", TemplateName)
                  /\ ncompile = before.ncompile

\* a function registered under a name other than its own is compiled, by the
\* factory form with that name, against the signature built from it
C6_Witness ==
    /\ call.op = "njit_tmpl"
    /\ call.form = "factory"
    /\ call.name # None
    /\ call.name # __name__(Unwrapped(call.func))
    /\ call.func.k = "func"
    /\ build_signature(JmBuilder, call.func).k = "ok"
    /\ result = Ok(Compiled(build_signature(JmBuilder, call.func).v, call.func))
    /\ ncompile = before.ncompile + 1

\* C7: with disable_jit set, anjit in the bare form and in the factory form
\* returns the function it decorates.
C7_DisabledAnjitIdentity ==
    jm.disable_jit /\ call.op = "anjit" => result = Ok(call.func)

\* C8: with disable_jit set, nothing is ever handed to the backend compiler.
C8_DisabledNeverCompiles ==
    jm.disable_jit => ncompile = 0

\* C9: anjit and njit_tmpl given a staticmethod compile the underlying function
\* against the signature introspected from it and return a staticmethod around
\* the compiled function.
C9_StaticMethodRewrapped ==
    /\ ~jm.disable_jit
    /\ call.op \in {"anjit", "njit_tmpl"}
    /\ call.func.k = "staticmethod"
    /\ result.k = "ok"
    => /\ result.v.k = "staticmethod"
       /\ result.v.v.k = "compiled"
       /\ result.v.v.v[2] = call.func.v

----------------------------------------------------------------------------
\* C15: a register call that fails, whatever the reason and whatever
\* raise_on_duplicate is, leaves the registry and the manager's mapping,
\* policies and disable_jit flag as they were before the call.
C15_FailedRegisterFrame ==
    [][(call'.op = "register" /\ result'.k # "ok") =>
          (signatures' = signatures /\ jm' = jm)]_vars

\* a name that holds a signature is registered again, duplicates allowed, with
\* a function whose signature cannot be derived: the old entry is still there
C15_Witness ==
    /\ call.op = "register"
    /\ ~call.rod
    /\ result.k \in {"MissingAnnotation", "UnknownAnnotation"}
    /\ RegisteredName \in DOMAIN before.signatures
    /\ signatures = before.signatures
    /\ signatures[RegisteredName] \in Registrable

=============================================================================
